---- MODULE Spec2Model ----
(***************************************************************************)
(* Model of the polls application (polls/models.py, polls/forms.py,        *)
(* polls/views.py): the relational store (users, profiles, questions,      *)
(* choices, votes), the clock, and the request handlers register,          *)
(* profile_delete, question_create, vote and IndexView.                    *)
(*                                                                         *)
(* Spec     : question lifetime; requests run one at a time.               *)
(* VoteSpec : accounts and votes; requests run one at a time.              *)
(* FormSpec : question creation over every combination of choice texts.    *)
(* ConcSpec : vote requests run in MaxProcs workers and interleave at      *)
(*            their storage statements (read, INSERT, UPDATE); the views   *)
(*            open no transaction, so each statement commits on its own.   *)
(***************************************************************************)
EXTENDS Integers, Sequences, FiniteSets, Bags, TLC

VARIABLES
    users,        \* auth_user rows: the set of existing user ids
    nextUserId,   \* the AUTOINCREMENT sequence of auth_user (ids are never reused)
    profiles,     \* polls_userprofile: user id -> name (OneToOne, at most one per user)
    questions,    \* polls_question: sequence of rows, id = index
    choices,      \* polls_choice: sequence of rows, id = index
    votes,        \* polls_vote: bag of rows [user, question, choice]
    now,          \* timezone.now(): [s |-> seconds, us |-> microseconds]
    response,     \* outcome of the last completed request
    pc,           \* ConcSpec: per worker, position inside vote()
    req           \* ConcSpec: per worker, the locals of vote()

vars == <<users, nextUserId, profiles, questions, choices, votes, now, response, pc, req>>
db == <<users, nextUserId, profiles, questions, choices, votes>>

----------------------------------------------------------------------------
(* Bounds of the model *)

MaxUsers == 2          \* user ids handed out
MaxQuestions == 2      \* questions created
MaxLifespan == 1       \* largest lifespan_days submitted
MaxSecs == 1           \* seconds-of-day the clock visits
MaxMicros == 1         \* microseconds-of-second the clock visits
MaxProcs == 2          \* concurrent vote workers (ConcSpec)

(* Program constants *)

SecondsPerDay == 86400
MicrosPerSecond == 1000000
NumChoiceFields == 3
Anonymous == 0
FirstUserId == 1

----------------------------------------------------------------------------
(* Time: datetime and timedelta arithmetic at microsecond resolution *)

Time(s, us) == [s |-> s, us |-> us]

\* datetime + timedelta(days = n)
AddDays(t, n) == Time(t.s + n * SecondsPerDay, t.us)

\* datetime <= datetime
TimeLeq(a, b) == a.s < b.s \/ (a.s = b.s /\ a.us <= b.us)

\* (faulty variant) is_active with a strict comparison
is_active_strict(question, t) ==
    ~TimeLeq(AddDays(question.pub_date, question.lifespan_days), t)

\* Question.is_active with the value timezone.now() returned
is_active(question, t) ==
    TimeLeq(t, AddDays(question.pub_date, question.lifespan_days))


\* timezone.now() after a step of the clock (carry from microseconds to seconds)
TimeAdd(t, d) ==
    LET us == t.us + d.us
    IN  Time(t.s + d.s + (us \div MicrosPerSecond), us % MicrosPerSecond)

ClockSteps == {Time(0, 1), Time(1, 0), Time(SecondsPerDay, 0)}

MaxDays == MaxLifespan + 1

\* the instants the model's clock visits
InHorizon(t) ==
    /\ t.s \div SecondsPerDay <= MaxDays
    /\ t.s % SecondsPerDay <= MaxSecs
    /\ t.us <= MaxMicros

----------------------------------------------------------------------------
(* IndexView.get_queryset: the filter SQLite evaluates.  Date strings are  *)
(* fixed-width, so a string is modelled by the sequence of its fields and  *)
(* compared as SQLite compares text: field by field, a proper prefix being *)
(* the smaller string.                                                     *)

\* now.strftime('%Y-%m-%d %H:%M:%S.%f'): seconds, then the 6-digit fraction
strftime(t) == <<t.s, t.us>>

\* SQLite datetime(pub_date, '+n days'): 'YYYY-MM-DD HH:MM:SS', no fraction
sqlite_datetime(pub_date, n) == <<pub_date.s + n * SecondsPerDay>>

\* text a > text b
StrGreater(a, b) ==
    \E i \in 1..Len(a) :
        /\ \A j \in 1..(i - 1) : j <= Len(b) /\ a[j] = b[j]
        /\ (i > Len(b) \/ a[i] > b[i])

\* the WHERE clause of get_queryset for one row
ListedRow(question, t) ==
    StrGreater(sqlite_datetime(question.pub_date, question.lifespan_days), strftime(t))

\* ids of the rows get_queryset returns (order_by only orders them)
get_queryset(qs, t) == {q \in DOMAIN qs : ListedRow(qs[q], t)}

----------------------------------------------------------------------------
(* Form cleaning: text is a sequence of characters *)

RECURSIVE LStrip(_)
LStrip(t) == IF t # <<>> /\ Head(t) = " " THEN LStrip(Tail(t)) ELSE t

RECURSIVE RStrip(_)
RStrip(t) ==
    IF t # <<>> /\ t[Len(t)] = " " THEN RStrip(SubSeq(t, 1, Len(t) - 1)) ELSE t

\* forms.CharField cleaning (strip = True)
Strip(t) == RStrip(LStrip(t))

RawTexts == {<<>>, <<" ">>, <<"R">>, <<"B", " ">>}
QuestionTexts == {<<>>, <<"Q">>}
Lifespans == (0 - 1)..MaxLifespan
Names == {"Ann"}
Methods == {"GET", "POST"}

\* QuestionCreateForm.is_valid: question_text required, lifespan_days >= 0
FormValid(form) == Strip(form.question_text) # <<>> /\ form.lifespan_days >= 0

\* cleaned_data of the three choice fields
CleanedChoices(form) == [i \in 1..NumChoiceFields |-> Strip(form.choice[i])]

\* (faulty variant) a Choice for every field, empty or not
NewChoicesAll(qid, cleaned) ==
    [i \in 1..Len(cleaned) |-> [question |-> qid, choice_text |-> cleaned[i], votes |-> 0]]

\* QuestionCreateForm.save, the loop over choice1..choice3
NewChoices(qid, cleaned) ==
    LET kept == SelectSeq(cleaned, LAMBDA text : text # <<>>)
    IN  [i \in 1..Len(kept) |-> [question |-> qid, choice_text |-> kept[i], votes |-> 0]]

----------------------------------------------------------------------------
(* Storage helpers *)

\* question.choice_set
choice_set(chs, qid) == {c \in DOMAIN chs : chs[c].question = qid}

VoteRow(u, qid, cid) == [user |-> u, question |-> qid, choice |-> cid]

\* number of polls_vote rows referencing a choice
VoteCount(rows, cid) ==
    BagCardinality([r \in {x \in BagToSet(rows) : x.choice = cid} |-> rows[r]])

\* number of polls_vote rows of one (user, question) pair
PairCount(rows, u, qid) ==
    BagCardinality([r \in {x \in BagToSet(rows) : x.user = u /\ x.question = qid} |-> rows[r]])

\* (faulty variant) only the foreign key is checked, not unique_together
IntegrityErrorFkOnly(rows, us, row) == row.user \notin us

\* what makes the INSERT of Vote.objects.create raise IntegrityError:
\* unique_together (user, question), or the user row is gone
IntegrityError(rows, us, row) ==
    \/ PairCount(rows, row.user, row.question) > 0
    \/ row.user \notin us

\* Vote.objects.create, the INSERT
InsertVote(rows, row) == rows (+) SetToBag({row})

\* (faulty variant) the increment is forgotten
IncrementedKeep(v) == v

\* selected_choice.votes += 1
Incremented(v) == v + 1

\* (faulty variant) the UPDATE hits every choice of the question
SaveChoiceAllOfQuestion(chs, cid, v) ==
    [c \in DOMAIN chs |->
        IF chs[c].question = chs[cid].question THEN [chs[c] EXCEPT !.votes = v] ELSE chs[c]]

\* selected_choice.save(): the UPDATE of one polls_choice row
SaveChoice(chs, cid, v) == [chs EXCEPT ![cid].votes = v]

\* user.delete(): on_delete = CASCADE removes the user's polls_vote rows
DeleteUserVotes(rows, u) == [r \in {x \in BagToSet(rows) : x.user # u} |-> rows[r]]

\* user.profile.delete() / cascade: the user's polls_userprofile row
DeleteProfile(profs, u) == [x \in DOMAIN profs \ {u} |-> profs[x]]

----------------------------------------------------------------------------
(* The request handlers *)

Procs == 1..MaxProcs
NoChoiceKey == 0
NoReq == [user |-> Anonymous, question |-> 0, choice |-> NoChoiceKey, votes |-> 0]

Resp(view, outcome) == [view |-> view, outcome |-> outcome, list |-> {}]

Idle == \A p \in Procs : pc[p] = "idle"

Init ==
    /\ users = {FirstUserId}          \* the staff account, made by createsuperuser
    /\ nextUserId = FirstUserId + 1
    /\ profiles = <<>>                \* createsuperuser creates no UserProfile
    /\ questions = <<>>
    /\ choices = <<>>
    /\ votes = EmptyBag
    /\ now = Time(0, 0)
    /\ response = Resp("none", "none")
    /\ pc = [p \in Procs |-> "idle"]
    /\ req = [p \in Procs |-> NoReq]

\* the clock moves forward between and during requests
AdvanceClock(d) ==
    /\ InHorizon(TimeAdd(now, d))
    /\ now' = TimeAdd(now, d)
    /\ UNCHANGED <<db, response, pc, req>>

\* register: UserRegisterForm.save creates the User and its UserProfile
Register(method, valid, name) ==
    /\ nextUserId <= MaxUsers
    /\ IF method = "POST" /\ valid
       THEN /\ users' = users \cup {nextUserId}
            /\ nextUserId' = nextUserId + 1
            /\ profiles' = [x \in DOMAIN profiles \cup {nextUserId} |->
                               IF x = nextUserId THEN name ELSE profiles[x]]
            /\ response' = Resp("register", "Registered")
       ELSE /\ response' = Resp("register", "Form")
            /\ UNCHANGED <<users, nextUserId, profiles>>
    /\ UNCHANGED <<questions, choices, votes, now, pc, req>>

\* (faulty variant) the handler catches nothing
CaughtNothing(u, profs) == FALSE

\* try: user.profile.delete() / except UserProfile.DoesNotExist: pass --
\* TRUE when the try block raises (no profile row) and the handler catches it
CaughtDoesNotExist(u, profs) == u \notin DOMAIN profs

\* profile_delete
ProfileDelete(u, method) ==
    /\ IF u = Anonymous
       THEN /\ response' = Resp("profile_delete", "LoginRequired")
            /\ UNCHANGED <<users, profiles, votes>>
       ELSE IF method # "POST"
       THEN /\ response' = Resp("profile_delete", "Confirm")
            /\ UNCHANGED <<users, profiles, votes>>
       ELSE IF u \notin DOMAIN profiles /\ ~CaughtDoesNotExist(u, profiles)
       THEN /\ response' = Resp("profile_delete", "ServerError")
            /\ UNCHANGED <<users, profiles, votes>>
       ELSE /\ response' = Resp("profile_delete", "Deleted")
            /\ users' = users \ {u}
            /\ profiles' = DeleteProfile(profiles, u)
            /\ votes' = DeleteUserVotes(votes, u)
    /\ UNCHANGED <<nextUserId, questions, choices, now, pc, req>>

\* question_create with QuestionCreateForm.save(commit = True)
QuestionCreate(u, method, form) ==
    /\ Len(questions) < MaxQuestions
    /\ IF u = Anonymous
       THEN /\ response' = Resp("question_create", "LoginRequired")
            /\ UNCHANGED <<questions, choices>>
       ELSE IF method = "POST" /\ FormValid(form)
       THEN /\ response' = Resp("question_create", "Created")
            /\ questions' = Append(questions,
                                [question_text |-> Strip(form.question_text),
                                 pub_date |-> now,
                                 lifespan_days |-> form.lifespan_days])
            /\ choices' = choices \o NewChoices(Len(questions) + 1, CleanedChoices(form))
       ELSE /\ response' = Resp("question_create", "Form")
            /\ UNCHANGED <<questions, choices>>
    /\ UNCHANGED <<users, nextUserId, profiles, votes, now, pc, req>>

\* IndexView
Index ==
    /\ response' = [view |-> "index", outcome |-> "OK",
                    list |-> get_queryset(questions, now)]
    /\ UNCHANGED <<db, now, pc, req>>

\* (faulty variant) the login check is made before the closed check
VoteCheckAuthFirst(qs, chs, t, u, qid, cid) ==
    IF qid \notin DOMAIN qs THEN "NotFound"
    ELSE IF u = Anonymous THEN "Unauthenticated"
    ELSE IF ~is_active(qs[qid], t) THEN "VotingClosed"
    ELSE IF cid \notin choice_set(chs, qid) THEN "InvalidChoice"
    ELSE "Proceed"

\* vote, up to the lookup of the selected choice
VoteCheck(qs, chs, t, u, qid, cid) ==
    IF qid \notin DOMAIN qs THEN "NotFound"
    ELSE IF ~is_active(qs[qid], t) THEN "VotingClosed"
    ELSE IF u = Anonymous THEN "Unauthenticated"
    ELSE IF cid \notin choice_set(chs, qid) THEN "InvalidChoice"
    ELSE "Proceed"

\* (faulty variant) the tally is written before the Vote is inserted
CastVoteTallyFirst(chs, rows, us, row) ==
    IF IntegrityError(rows, us, row)
    THEN [outcome |-> "AlreadyVoted", votes |-> rows,
          choices |-> SaveChoice(chs, row.choice, Incremented(chs[row.choice].votes))]
    ELSE [outcome |-> "Success", votes |-> InsertVote(rows, row),
          choices |-> SaveChoice(chs, row.choice, Incremented(chs[row.choice].votes))]

\* vote, the try block, run without interleaving
CastVote(chs, rows, us, row) ==
    IF IntegrityError(rows, us, row)
    THEN [outcome |-> "AlreadyVoted", votes |-> rows, choices |-> chs]
    ELSE [outcome |-> "Success", votes |-> InsertVote(rows, row),
          choices |-> SaveChoice(chs, row.choice, Incremented(chs[row.choice].votes))]

\* vote, as one request
Vote(u, qid, cid) ==
    /\ Idle
    /\ LET check == VoteCheck(questions, choices, now, u, qid, cid)
       IN  IF check # "Proceed"
           THEN /\ response' = Resp("vote", check)
                /\ UNCHANGED <<choices, votes>>
           ELSE LET cast == CastVote(choices, votes, users, VoteRow(u, qid, cid))
                IN  /\ response' = Resp("vote", cast.outcome)
                    /\ votes' = cast.votes
                    /\ choices' = cast.choices
    /\ UNCHANGED <<users, nextUserId, profiles, questions, now, pc, req>>

\* vote in worker p, up to the lookup: selected_choice is a copy of the row
VoteBegin(p, u, qid, cid) ==
    /\ pc[p] = "idle"
    /\ LET check == VoteCheck(questions, choices, now, u, qid, cid)
       IN  IF check # "Proceed"
           THEN /\ response' = Resp("vote", check)
                /\ UNCHANGED <<pc, req>>
           ELSE /\ pc' = [pc EXCEPT ![p] = "insert"]
                /\ req' = [req EXCEPT ![p] = [user |-> u, question |-> qid, choice |-> cid,
                                              votes |-> choices[cid].votes]]
                /\ UNCHANGED response
    /\ UNCHANGED <<db, now>>

\* vote in worker p: Vote.objects.create
VoteInsert(p) ==
    /\ pc[p] = "insert"
    /\ LET row == VoteRow(req[p].user, req[p].question, req[p].choice)
       IN  IF IntegrityError(votes, users, row)
           THEN /\ response' = Resp("vote", "AlreadyVoted")
                /\ pc' = [pc EXCEPT ![p] = "idle"]
                /\ req' = [req EXCEPT ![p] = NoReq]
                /\ UNCHANGED votes
           ELSE /\ votes' = InsertVote(votes, row)
                /\ pc' = [pc EXCEPT ![p] = "save"]
                /\ UNCHANGED <<response, req>>
    /\ UNCHANGED <<users, nextUserId, profiles, questions, choices, now>>

\* vote in worker p: selected_choice.votes += 1; selected_choice.save()
VoteSave(p) ==
    /\ pc[p] = "save"
    /\ choices' = SaveChoice(choices, req[p].choice, Incremented(req[p].votes))
    /\ response' = Resp("vote", "Success")
    /\ pc' = [pc EXCEPT ![p] = "idle"]
    /\ req' = [req EXCEPT ![p] = NoReq]
    /\ UNCHANGED <<users, nextUserId, profiles, questions, votes, now>>

Requesters == users \cup {Anonymous}
QuestionIds == 1..(Len(questions) + 1)
ChoiceIds == NoChoiceKey..Len(choices)

\* inputs of question_create with the choice fields fixed: "R", "", "B "
PlainForms ==
    [question_text : QuestionTexts, lifespan_days : Lifespans,
     choice : {<<<<"R">>, <<>>, <<"B", " ">>>>}]

\* clock steps of whole days
DaySteps == {Time(SecondsPerDay, 0)}

(* Spec: question lifetime.  One account; questions with two choices; the  *)
(* clock moves by a microsecond, a second or a day.                        *)
Next ==
    \/ \E d \in ClockSteps : AdvanceClock(d)
    \/ \E u \in Requesters, m \in Methods, form \in PlainForms : QuestionCreate(u, m, form)
    \/ Index
    \/ \E u \in Requesters, qid \in QuestionIds, cid \in ChoiceIds : Vote(u, qid, cid)

Spec == Init /\ [][Next]_vars

(* VoteSpec: accounts and votes, one request at a time; the clock moves by *)
(* whole days.                                                             *)
NextVote ==
    \/ \E d \in DaySteps : AdvanceClock(d)
    \/ \E m \in Methods, valid \in BOOLEAN, name \in Names : Register(m, valid, name)
    \/ \E u \in Requesters, m \in Methods : ProfileDelete(u, m)
    \/ \E u \in Requesters, m \in Methods, form \in PlainForms : QuestionCreate(u, m, form)
    \/ \E u \in Requesters, qid \in QuestionIds, cid \in ChoiceIds : Vote(u, qid, cid)

VoteSpec == Init /\ [][NextVote]_vars

\* inputs of question_create with every combination of choice texts
ChoiceForms ==
    [question_text : QuestionTexts, lifespan_days : {MaxLifespan},
     choice : [1..NumChoiceFields -> RawTexts]]

(* FormSpec: question creation over every combination of the choice fields *)
NextForm ==
    \E u \in Requesters, m \in Methods, form \in ChoiceForms : QuestionCreate(u, m, form)

FormSpec == Init /\ [][NextForm]_vars

\* inputs of question_create with the longest lifespan
LongForms ==
    [question_text : QuestionTexts, lifespan_days : {MaxLifespan},
     choice : {<<<<"R">>, <<>>, <<"B", " ">>>>}]

(* ConcSpec: vote requests interleaved at their storage statements, while  *)
(* every question is open.                                                 *)
NextConc ==
    \/ \E m \in Methods, valid \in BOOLEAN, name \in Names : Register(m, valid, name)
    \/ \E u \in Requesters, m \in Methods : ProfileDelete(u, m)
    \/ \E u \in Requesters, m \in Methods, form \in LongForms : QuestionCreate(u, m, form)
    \/ \E p \in Procs, u \in Requesters, qid \in QuestionIds, cid \in ChoiceIds :
          VoteBegin(p, u, qid, cid)
    \/ \E p \in Procs : VoteInsert(p)
    \/ \E p \in Procs : VoteSave(p)

ConcSpec == Init /\ [][NextConc]_vars

----------------------------------------------------------------------------
(* Properties *)

\* no user row was ever deleted: every id handed out still exists
NoAccountDeleted == users = FirstUserId..(nextUserId - 1)

\* C1: in every reachable state, also with vote requests of one user on one
\* question interleaved at their storage statements, each (user, question)
\* pair has at most one Vote row.
AtMostOneVotePerPair ==
    \A r \in BagToSet(votes) : PairCount(votes, r.user, r.question) = 1

\* C1 case: two workers hold requests of the same user on the same question
\* for different choices; one has inserted its Vote, the other is about to.
RacingDoubleVote ==
    \E p1, p2 \in Procs :
        /\ pc[p1] = "save" /\ pc[p2] = "insert"
        /\ req[p1].user = req[p2].user
        /\ req[p1].question = req[p2].question
        /\ req[p1].choice # req[p2].choice

\* the preconditions of a successful vote request
VotePre(u, qid, cid) ==
    /\ qid \in DOMAIN questions
    /\ is_active(questions[qid], now)
    /\ u \in users
    /\ cid \in DOMAIN choices
    /\ choices[cid].question = qid
    /\ PairCount(votes, u, qid) = 0

\* C2: a vote request on an active question by an authenticated user for a
\* choice of the question, with no earlier Vote of that user on it, succeeds:
\* the choice's count grows by exactly 1, one Vote row (user, question,
\* choice) is added, and every other Choice row is unchanged.
VoteSuccessEffect ==
    [][\A u \in users, qid \in DOMAIN questions, cid \in DOMAIN choices :
          (VotePre(u, qid, cid) /\ Vote(u, qid, cid)) =>
              /\ response' = Resp("vote", "Success")
              /\ Len(choices') = Len(choices)
              /\ choices'[cid].votes = choices[cid].votes + 1
              /\ \A c \in DOMAIN choices \ {cid} : choices'[c] = choices[c]
              /\ votes' = votes (+) SetToBag({VoteRow(u, qid, cid)})]_vars

\* C2 case: a vote has just succeeded while a second question with choices
\* of its own exists.
VotedWithTwoQuestions ==
    /\ response = Resp("vote", "Success")
    /\ Len(questions) = 2
    /\ choice_set(choices, 1) # {} /\ choice_set(choices, 2) # {}
    /\ \E c \in DOMAIN choices : choices[c].votes = 1

\* C3 (as stated): a vote request by a user who already has a Vote on the
\* question, for any choice of the question, ends AlreadyVoted and changes
\* neither the Vote rows nor any count.
RepeatVoteAlwaysAlreadyVoted ==
    [][\A u \in users, qid \in DOMAIN questions : \A cid \in choice_set(choices, qid) :
          (PairCount(votes, u, qid) > 0 /\ Vote(u, qid, cid)) =>
              /\ response' = Resp("vote", "AlreadyVoted")
              /\ votes' = votes
              /\ choices' = choices]_vars

\* C3 (amended): while the question is still active, a vote request by a user
\* who already has a Vote on it, for any choice of the question, ends
\* AlreadyVoted; whether the question is active or not, the request changes
\* neither the Vote rows nor any count, however often it is repeated.
RepeatVoteNoEffect ==
    [][\A u \in users, qid \in DOMAIN questions : \A cid \in choice_set(choices, qid) :
          (PairCount(votes, u, qid) > 0 /\ Vote(u, qid, cid)) =>
              /\ is_active(questions[qid], now) => response' = Resp("vote", "AlreadyVoted")
              /\ votes' = votes
              /\ choices' = choices]_vars

\* C3 case: a repeated vote was just refused and the first Vote is in place.
RepeatVoteRefused ==
    /\ response = Resp("vote", "AlreadyVoted")
    /\ \E r \in BagToSet(votes) : choices[r.choice].votes = 1

\* C4: once every vote request has finished (and no voter's account was
\* deleted, so every successful request still has its Vote row), each
\* Choice's count equals the number of requests that succeeded for it.
NoLostIncrement ==
    (Idle /\ NoAccountDeleted) =>
        \A c \in DOMAIN choices : choices[c].votes = VoteCount(votes, c)

\* C5: is_active holds iff now <= pub_date + lifespan_days days: true at the
\* boundary instant itself, false one second (and one microsecond) later.
IsActiveIffWithinLifespan ==
    \A q \in DOMAIN questions :
        LET elapsed == now.s - questions[q].pub_date.s
            life == questions[q].lifespan_days * SecondsPerDay
            boundary == AddDays(questions[q].pub_date, questions[q].lifespan_days)
        IN  /\ is_active(questions[q], now) <=>
                  (elapsed < life \/ (elapsed = life /\ now.us <= questions[q].pub_date.us))
            /\ now = boundary => is_active(questions[q], now)
            /\ now = TimeAdd(boundary, Time(1, 0)) => ~is_active(questions[q], now)
            /\ now = TimeAdd(boundary, Time(0, 1)) => ~is_active(questions[q], now)

\* C5 case: the clock stands exactly at the end of a question's lifespan of
\* MaxLifespan days and a vote on it has been accepted.
VotedAtBoundary ==
    \E q \in DOMAIN questions :
        /\ questions[q].lifespan_days = MaxLifespan
        /\ now = AddDays(questions[q].pub_date, MaxLifespan)
        /\ response = Resp("vote", "Success")
        /\ \E r \in BagToSet(votes) : r.question = q

\* C6: the listing IndexView returns at now holds exactly the questions for
\* which is_active is true at now.
ListingMatchesIsActive ==
    [][Index =>
          response'.list = {q \in DOMAIN questions : is_active(questions[q], now)}]_vars

\* C7: a vote request on an existing question that is not active ends
\* VotingClosed and changes neither the Vote rows nor any count, whoever
\* sends it (anonymous included) and whatever choice it names.
ClosedVoteRejectedFirst ==
    [][\A u \in Requesters, qid \in DOMAIN questions, cid \in ChoiceIds :
          (~is_active(questions[qid], now) /\ Vote(u, qid, cid)) =>
              /\ response' = Resp("vote", "VotingClosed")
              /\ votes' = votes
              /\ choices' = choices]_vars

\* C7 case: a vote was just refused as closed on a question that took a vote
\* while it was open.
ClosedAfterVoting ==
    /\ response = Resp("vote", "VotingClosed")
    /\ \E r \in BagToSet(votes) : ~is_active(questions[r.question], now)

\* the Choice rows the claim C8 expects for the fields i..NumChoiceFields
RECURSIVE ExpectedChoices(_, _, _)
ExpectedChoices(form, qid, i) ==
    IF i > NumChoiceFields THEN <<>>
    ELSE (IF \E k \in 1..Len(form.choice[i]) : form.choice[i][k] # " "
          THEN <<[question |-> qid, choice_text |-> Strip(form.choice[i]), votes |-> 0]>>
          ELSE <<>>)
         \o ExpectedChoices(form, qid, i + 1)

\* C8: creating a question from a valid form adds the Question and, after
\* the existing Choice rows, one Choice per non-empty choice text, in field
\* order, with count 0 and belonging to the new Question; none when all
\* three texts are empty.
CreateMakesChoicesInOrder ==
    [][\A u \in users, form \in ChoiceForms :
          (FormValid(form) /\ QuestionCreate(u, "POST", form)) =>
              /\ response' = Resp("question_create", "Created")
              /\ Len(questions') = Len(questions) + 1
              /\ SubSeq(questions', 1, Len(questions)) = questions
              /\ questions'[Len(questions')].lifespan_days = form.lifespan_days
              /\ questions'[Len(questions')].pub_date = now
              /\ choices' = choices \o ExpectedChoices(form, Len(questions) + 1, 1)]_vars

\* C8 case: the second question was created from "R", "", "B " after a first
\* question with no choice at all.
CreatedRedBlue ==
    /\ response = Resp("question_create", "Created")
    /\ Len(questions) = 2
    /\ choice_set(choices, 1) = {}
    /\ Len(choices) = 2
    /\ choices[1] = [question |-> 2, choice_text |-> <<"R">>, votes |-> 0]
    /\ choices[2] = [question |-> 2, choice_text |-> <<"B">>, votes |-> 0]

\* C9: a POST to profile_delete by a logged-in user succeeds with or without
\* a UserProfile row; afterwards the user, its profile and its Votes are
\* gone, and every other user, profile and Vote, every Question and every
\* Choice is as before.
DeleteAccountAlwaysSucceeds ==
    [][\A u \in users :
          ProfileDelete(u, "POST") =>
              /\ response' = Resp("profile_delete", "Deleted")
              /\ users' = users \ {u}
              /\ DOMAIN profiles' = DOMAIN profiles \ {u}
              /\ \A x \in DOMAIN profiles' : profiles'[x] = profiles[x]
              /\ \A r \in BagToSet(votes') : r.user # u
              /\ \A r \in BagToSet(votes) : r.user # u => CopiesIn(r, votes') = CopiesIn(r, votes)
              /\ BagToSet(votes') \subseteq BagToSet(votes)
              /\ questions' = questions
              /\ choices' = choices]_vars

\* C9 case: the account without a UserProfile row was just deleted, after it
\* had voted, while another user's Vote stays.
DeletedWithoutProfile ==
    /\ response = Resp("profile_delete", "Deleted")
    /\ FirstUserId \notin users
    /\ \E c \in DOMAIN choices : choices[c].votes > VoteCount(votes, c)
    /\ \E r \in BagToSet(votes) : r.user \in users

\* C10 (as stated): after any sequence of completed requests every Choice's
\* count equals the number of Vote rows referencing it, also after a voter
\* deleted their account.
TallyEqualsVoteRows ==
    \A c \in DOMAIN choices : choices[c].votes = VoteCount(votes, c)

\* C10 (amended): after any sequence of completed requests every Choice's
\* count is at least the number of Vote rows referencing it, and equals it
\* as long as no account has been deleted; the cascade removes a deleted
\* voter's Vote rows and leaves the counts as they were.
TallyCoversVoteRows ==
    \A c \in DOMAIN choices :
        /\ choices[c].votes >= VoteCount(votes, c)
        /\ NoAccountDeleted => choices[c].votes = VoteCount(votes, c)

\* C10 case: a voter deleted their account; the count still includes them.
TallyAfterVoterDeleted ==
    /\ ~NoAccountDeleted
    /\ \E c \in DOMAIN choices : choices[c].votes = 1 /\ VoteCount(votes, c) = 0

====
